---- MODULE Spec2Model ----
(***************************************************************************)
(* The wind mover of lib_gnome (WindMover_c.cpp): the per-particle         *)
(* uncertainty store (fWindUncertaintyList, fLESetSizes), the scheduler    *)
(* that reinitialises, grows or refreshes it every model step, the shrink  *)
(* after particle removal, and the per-batch move computation.            *)
(*                                                                         *)
(* Time is counted in hours (fDuration = 3*3600 s is 3).  Handles are      *)
(* records [h, recs]: h says whether the handle is allocated, recs is its  *)
(* contents; C index i is recs[i+1].  The build modelled is the pyGNOME    *)
(* one (the #ifdef pyGNOME branches).                                      *)
(***************************************************************************)
EXTENDS Integers, Sequences, FiniteSets, TLC

\* ---------------------------------------------------------------- bounds
MaxTime  == 3      \* model times are 0..MaxTime
MaxFirst == 1      \* the model time of a run's first step is 0..MaxFirst
MaxSets  == 2      \* at most this many uncertainty sets in one step
MaxSize  == 2      \* at most this many particles in one set
MaxTotal == 2      \* at most this many particles over all sets of one step
MaxStart == 1      \* configured fUncertainStartTime is 0..MaxStart
MaxN     == 1      \* at most this many particles in one get_move batch
MoveTime == 1      \* model times of the steps of MoveSpec are 0..MoveTime

\* ------------------------------------------------------ program constants
\* (the error, tag and status codes have the values of the lib_gnome headers)
DefaultDuration == 3            \* fDuration = 3*3600 seconds, in hours
DefaultMaxAngle == 60           \* fMaxAngle, degrees
MaxRetries      == 10           \* the j < 10 loop of the bounded sampler
SecondsPerHour  == 3600
noErr           == 0
memFullErr      == -108
FORECAST_LE     == 1
UNCERTAINTY_LE  == 2
OILSTAT_INWATER == 2
OILSTAT_TO_BE_REMOVED == 12

VARIABLES
    fWindUncertaintyList,   \* handle of LEWindUncertainRec: [h, recs]
    fLESetSizes,            \* handle of long, the per-set start index: [h, recs]
    fTimeUncertaintyWasSet, \* elapsed time of the last (re)sampling
    fSigma2, fSigmaTheta,   \* spreads, recomputed by UpdateUncertainty
    fUncertainStartTime,    \* configured by the host, fixed during a run
    fDuration, fMaxAngle,
    fUncertaintyDiffusion,
    bIsFirstStep, fModelStartTime,
    fIsConstantWind, fConstantValue,
    current_time_value,     \* the wind cached by PrepareForModelStep
    call                    \* the last call: its arguments, path and result

vars == <<fWindUncertaintyList, fLESetSizes, fTimeUncertaintyWasSet, fSigma2,
          fSigmaTheta, fUncertainStartTime, fDuration, fMaxAngle,
          fUncertaintyDiffusion, bIsFirstStep, fModelStartTime,
          fIsConstantWind, fConstantValue, current_time_value, call>>

\* ---------------------------------------------------------------- values
NilHandle == [h |-> FALSE, recs |-> <<>>]

\* An element of a handle that _NewHandle or _SetHandleSize made and nothing
\* has written yet.
Unfilled == [randCos |-> 0, randSin |-> 0, sampled |-> FALSE]

\* What one rndv call can return (a pair near the axis, a pair far off it).
RndvValues == {[randCos |-> 1, randSin |-> 0], [randCos |-> 0, randSin |-> 2]}

ZeroWind == [u |-> 0, v |-> 0]
Statuses == {OILSTAT_INWATER, OILSTAT_TO_BE_REMOVED}
Winds    == {ZeroWind, [u |-> 3, v |-> 4]}

Abs(x) == IF x < 0 THEN -x ELSE x

RECURSIVE SumSeq(_)
SumSeq(s) == IF s = <<>> THEN 0 ELSE s[1] + SumSeq(Tail(s))

\* The set-size lists a host can report: up to MaxSets sets of up to MaxSize
\* particles, MaxTotal particles in all.
SizeLists ==
    {s \in UNION {[1..k -> 0..MaxSize] : k \in 0..MaxSets} : SumSeq(s) <= MaxTotal}

\* Integer square root, and the integer fourth root sqrt(sqrt(x)).
ISqrt(x) == CHOOSE r \in 0..130 : r * r <= x /\ x < (r + 1) * (r + 1)
Root4(x) == ISqrt(ISqrt(x))

\* fSigmaTheta = fAngleScale * 2.73 * sqrt(sqrt(dt)), fAngleScale = .4, in
\* whole degrees; dt in hours.
SigmaThetaOf(dt) == (4 * 273 * Root4(dt * SecondsPerHour)) \div 1000

\* fSigma2 = (fSpeedScale * .315 * dt^.147)^2 / 2: strictly increasing in dt
\* and 0 at 0.  The model keeps the argument the formula was evaluated at.
Sigma2Of(dt) == dt

\* ------------------------------------------------------------ the sampler
TermsLessThanMax(cosTerm, sinTerm, angleMax, sigmaTheta) ==
    Abs(sigmaTheta * sinTerm) <= angleMax

\* The loop of UpdateUncertaintyValues and of the grow path: one rndv, then
\* up to MaxRetries times "break if within the bound, else rndv again".  An
\* outcome is the pair stored and the number of rndv calls made.
SampleOutcomes(angleMax, sigmaTheta) ==
    LET ok(d)  == TermsLessThanMax(d.randCos, d.randSin, angleMax, sigmaTheta)
        bad    == {d \in RndvValues : ~ok(d)}
    IN  {o \in [draw : RndvValues, calls : 1..(MaxRetries + 1)] :
            /\ o.calls > 1 => bad # {}
            /\ o.calls <= MaxRetries => ok(o.draw)}

SampledRec(d) == [randCos |-> d.randCos, randSin |-> d.randSin, sampled |-> TRUE]

\* The records the sampler can store for one entry.
SampleBounded(angleMax, sigmaTheta) ==
    {SampledRec(o.draw) : o \in SampleOutcomes(angleMax, sigmaTheta)}

\* ------------------------------------------------------ the uncertainty store
\* The mover fields the store operations read and write, as one record.
Mover == [list |-> fWindUncertaintyList, sizes |-> fLESetSizes,
          timeSet |-> fTimeUncertaintyWasSet,
          sigma2 |-> fSigma2, sigmaTheta |-> fSigmaTheta,
          written |-> {}, against |-> {}]
\* (written: the 1-based indices of the list the sampler has stored a pair
\* at so far during the current call; against: the values of fSigmaTheta
\* that TermsLessThanMax was passed for them.)

\* (The build without pyGNOME defined: every mismatch of the total reinitialises.)
GuiGnomeBuild == FALSE

PyGnomeBuild == TRUE     \* #ifdef pyGNOME

\* (A variant that leaves fTimeUncertaintyWasSet as it is.)
DisposeUncertaintyKeepsTime(m) ==
    [m EXCEPT !.list = NilHandle, !.sizes = NilHandle, !.written = {}]

DisposeUncertainty(m) ==
    [m EXCEPT !.timeSet = 0, !.list = NilHandle, !.sizes = NilHandle,
              !.written = {}]

\* _NewHandle / _SetHandleSize growth: n elements nothing has written.
Blank(n) == [i \in 1..n |-> Unfilled]

\* Every way the bounded sampler can fill the entries lo..hi (1-based) of the
\* list of m, checking the draws against sigmaTheta.
FillRange(m, lo, hi, sigmaTheta) ==
    {[m EXCEPT !.list.recs = [i \in 1..Len(@) |->
                                IF lo <= i /\ i <= hi THEN f[i] ELSE @[i]],
               !.written = @ \cup (lo..hi),
               !.against = IF lo <= hi THEN @ \cup {sigmaTheta} ELSE @] :
        f \in [lo..hi -> SampleBounded(fMaxAngle, sigmaTheta)]}

\* (A variant whose loop starts at i = 1.)
UpdateUncertaintyValuesFromOne(m, elapsedTime) ==
    LET m1 == [m EXCEPT !.timeSet = elapsedTime]
    IN  IF ~m.list.h THEN {m1}
        ELSE FillRange(m1, 2, Len(m.list.recs), m.sigmaTheta)

\* Records the time and resamples every entry of the list, if there is one.
UpdateUncertaintyValues(m, elapsedTime) ==
    LET m1 == [m EXCEPT !.timeSet = elapsedTime]
    IN  IF ~m.list.h THEN {m1}
        ELSE FillRange(m1, 1, Len(m.list.recs), m.sigmaTheta)

\* (A variant that stores the running sum after adding the set's size.)
RECURSIVE StartIndexesAfterAdd(_, _)
StartIndexesAfterAdd(sizes, numrec) ==
    IF sizes = <<>> THEN <<>>
    ELSE <<numrec + sizes[1]>> \o StartIndexesAfterAdd(Tail(sizes), numrec + sizes[1])

\* The loop of AllocateUncertainty: set i starts at the sum of the sizes
\* before it.
RECURSIVE StartIndexes(_, _)
StartIndexes(sizes, numrec) ==
    IF sizes = <<>> THEN <<>>
    ELSE <<numrec>> \o StartIndexes(Tail(sizes), numrec + sizes[1])

\* The outcomes of AllocateUncertainty: [m, err].  Either _NewHandle call can
\* fail; both failures end in errHandler.
AllocateUncertainty(m, sizes) ==
    LET d  == DisposeUncertainty(m)
        ok == [d EXCEPT !.sizes = [h |-> TRUE, recs |-> StartIndexes(sizes, 0)],
                        !.list  = [h |-> TRUE, recs |-> Blank(SumSeq(sizes))]]
    IN  IF Len(sizes) = 0 THEN {[m |-> d, err |-> -1]}
        ELSE {[m |-> ok, err |-> noErr], [m |-> d, err |-> memFullErr]}

\* The comparison loop of UpdateUncertainty: stops at the first set whose
\* stored start index differs, with numrec the sum so far.
RECURSIVE ScanOffsets(_, _, _, _)
ScanOffsets(sizes, offsets, i, numrec) ==
    IF i > Len(sizes) THEN [mismatch |-> FALSE, numrec |-> numrec]
    ELSE IF numrec # offsets[i] THEN [mismatch |-> TRUE, numrec |-> numrec]
    ELSE ScanOffsets(sizes, offsets, i + 1, numrec + sizes[i])

\* What the checks of UpdateUncertainty before the grow block decide.
Decide(m, elapsedTime, sizes) ==
    LET numLESets       == Len(sizes)
        numLESetsStored == Len(m.sizes.recs)
        compared        == m.sizes.h /\ numLESets = numLESetsStored
        scan            == IF compared THEN ScanOffsets(sizes, m.sizes.recs, 1, 0)
                           ELSE [mismatch |-> FALSE, numrec |-> 0]
        uncertListSize  == Len(m.list.recs)
        differs         == compared /\ scan.numrec # uncertListSize
    IN  [needToReInit |->
            \/ ~m.list.h \/ ~m.sizes.h
            \/ elapsedTime < m.timeSet
            \/ (m.sizes.h /\ numLESets # numLESetsStored)
            \/ (compared /\ scan.mismatch)
            \/ (differs /\ (~PyGnomeBuild \/ scan.numrec < uncertListSize)),
         needToReAllocate |-> differs /\ PyGnomeBuild /\ scan.numrec > uncertListSize,
         numrec |-> scan.numrec,
         uncertListSize |-> uncertListSize,
         numLESetsStored |-> numLESetsStored]

\* (A variant that forgets the duration.)
DurationIgnored(m, elapsedTime) == elapsedTime >= m.timeSet

\* The persistence test of UpdateUncertainty.
DurationExceeded(m, elapsedTime) == elapsedTime >= m.timeSet + fDuration

\* (A variant whose sampling loop starts at index 0.)
GrowBlockFromZero(m, sizes, dec) ==
    LET resized == [m EXCEPT !.list.recs = @ \o Blank(dec.numrec - dec.uncertListSize)]
    IN  IF Len(sizes) # 1 \/ dec.numLESetsStored # 1
        THEN {[m |-> resized, err |-> -1]}
        ELSE {[m |-> x, err |-> noErr] :
                x \in FillRange(resized, 1, dec.numrec, m.sigmaTheta)}

\* The grow block: the list is resized to numrec first; with other than one
\* set the call returns -1 there; else the new entries are sampled, against
\* the spreads of the previous step.
GrowBlock(m, sizes, dec) ==
    LET resized == [m EXCEPT !.list.recs = @ \o Blank(dec.numrec - dec.uncertListSize)]
    IN  IF Len(sizes) # 1 \/ dec.numLESetsStored # 1
        THEN {[m |-> resized, err |-> -1]}
        ELSE {[m |-> x, err |-> noErr] :
                x \in FillRange(resized, dec.uncertListSize + 1, dec.numrec,
                                m.sigmaTheta)}

Recompute(m, elapsedTime) ==
    [m EXCEPT !.sigma2     = Sigma2Of(elapsedTime - fUncertainStartTime),
              !.sigmaTheta = SigmaThetaOf(elapsedTime - fUncertainStartTime)]

\* The tail of UpdateUncertainty, after the spreads are recomputed.
ReInitOrRefresh(m, elapsedTime, sizes, dec) ==
    IF dec.needToReInit
    THEN UNION {IF a.err = noErr
                THEN {[m |-> x, err |-> noErr, refreshed |-> FALSE] :
                        x \in UpdateUncertaintyValues(a.m, elapsedTime)}
                ELSE {[m |-> a.m, err |-> a.err, refreshed |-> FALSE]} :
                a \in AllocateUncertainty(m, sizes)}
    ELSE IF DurationExceeded(m, elapsedTime)
    THEN {[m |-> x, err |-> noErr, refreshed |-> TRUE] :
            x \in UpdateUncertaintyValues(m, elapsedTime)}
    ELSE {[m |-> m, err |-> noErr, refreshed |-> FALSE]}

\* (A variant that leaves the store alone before the start time.)
BeforeStartKeeps(m) == m

\* The branch of UpdateUncertainty taken before fUncertainStartTime.
BeforeStart(m) == IF m.list.h THEN DisposeUncertainty(m) ELSE m

\* The outcomes of UpdateUncertainty: the mover fields after the call, the
\* error returned, and the path taken (active: elapsed >= start; reinit, grow:
\* what the checks decided; refresh: the persistence branch ran).
UpdateUncertainty(m, elapsedTime, sizes) ==
    LET dec  == Decide(m, elapsedTime, sizes)
        path == [active |-> TRUE, reinit |-> dec.needToReInit,
                 grow |-> dec.needToReAllocate, refresh |-> FALSE]
    IN  IF ~(elapsedTime >= fUncertainStartTime)
        THEN {[m |-> BeforeStart(m), err |-> 0,
               path |-> [path EXCEPT !.active = FALSE, !.reinit = FALSE,
                                     !.grow = FALSE]]}
        ELSE UNION {
               IF g.err # noErr THEN {[m |-> g.m, err |-> g.err, path |-> path]}
               ELSE {[m |-> t.m, err |-> t.err,
                      path |-> [path EXCEPT !.refresh = t.refreshed]] :
                        t \in ReInitOrRefresh(Recompute(g.m, elapsedTime),
                                              elapsedTime, sizes, dec)} :
               g \in IF dec.needToReAllocate THEN GrowBlock(m, sizes, dec)
                     ELSE {[m |-> m, err |-> noErr]}}

\* (A variant that counts the kept entries without moving them.)
RECURSIVE CompactInPlace(_, _, _, _)
CompactInPlace(recs, statusCodes, i, numrec) ==
    IF i > Len(statusCodes) THEN [recs |-> recs, numrec |-> numrec]
    ELSE IF statusCodes[i] = OILSTAT_TO_BE_REMOVED
         THEN CompactInPlace(recs, statusCodes, i + 1, numrec)
         ELSE CompactInPlace(recs, statusCodes, i + 1, numrec + 1)

\* The compaction loop of ReallocateUncertainty: the entries whose status is
\* not OILSTAT_TO_BE_REMOVED, in order, moved to the front of the array.
RECURSIVE Compact(_, _, _, _)
Compact(recs, statusCodes, i, numrec) ==
    IF i > Len(statusCodes) THEN [recs |-> recs, numrec |-> numrec]
    ELSE IF statusCodes[i] = OILSTAT_TO_BE_REMOVED
         THEN Compact(recs, statusCodes, i + 1, numrec)
         ELSE Compact([recs EXCEPT ![numrec + 1] = recs[i]], statusCodes,
                      i + 1, numrec + 1)

\* (A variant without the test of the number of sets.)
ReallocateUncertaintyAnySets(m, numLEs, given, statusCodes) ==
    LET c == Compact(m.list.recs, statusCodes, 1, 0)
    IN  IF numLEs = 0 \/ ~given THEN [m |-> m, err |-> -1]
        ELSE IF ~m.list.h \/ ~m.sizes.h THEN [m |-> m, err |-> 0]
        ELSE IF Len(m.list.recs) # numLEs THEN [m |-> m, err |-> -1]
        ELSE IF c.numrec = 0 THEN [m |-> DisposeUncertainty(m), err |-> noErr]
        ELSE [m |-> [m EXCEPT !.list.recs = SubSeq(c.recs, 1, c.numrec)],
              err |-> noErr]

\* ReallocateUncertainty: [m, err].  given says whether statusCodes is a
\* non-null pointer; numLEs is Len(statusCodes) when it is.
ReallocateUncertainty(m, numLEs, given, statusCodes) ==
    LET c == Compact(m.list.recs, statusCodes, 1, 0)
    IN  IF numLEs = 0 \/ ~given THEN [m |-> m, err |-> -1]
        ELSE IF ~m.list.h \/ ~m.sizes.h THEN [m |-> m, err |-> 0]
        ELSE IF Len(m.list.recs) # numLEs THEN [m |-> m, err |-> -1]
        ELSE IF Len(m.sizes.recs) # 1 THEN [m |-> m, err |-> -1]
        ELSE IF c.numrec = 0 THEN [m |-> DisposeUncertainty(m), err |-> noErr]
        ELSE [m |-> [m EXCEPT !.list.recs = SubSeq(c.recs, 1, c.numrec)],
              err |-> noErr]

ApplyMover(m) ==
    /\ fWindUncertaintyList' = m.list
    /\ fLESetSizes' = m.sizes
    /\ fTimeUncertaintyWasSet' = m.timeSet
    /\ fSigma2' = m.sigma2
    /\ fSigmaTheta' = m.sigmaTheta

\* GetTimeValue: the constant wind, or what the time-dependent provider
\* returns for the time: a value, or an error code with timeValue as
\* initialised.
GetTimeValue(current_time) ==
    IF fIsConstantWind THEN {[value |-> fConstantValue, err |-> noErr]}
    ELSE [value : Winds, err : {noErr}] \cup [value : {ZeroWind}, err : {-1}]

\* fUncertaintyDiffusion = sqrt(6*(eddyDiffusion/10000)/time_step): the model
\* keeps the quotient under the root, in thousandths; time_step in seconds.
DiffusionOf(time_step) == (6 * (1000000 \div 10000) * 1000) \div time_step

\* ------------------------------------------------------------ the move
\* AddUncertainty for the particle leIndex of set setIndex: the ways the wind
\* patVel can come out.  "wind": returned as it is; "diffusion": the near-calm
\* branch; "draw": perturbed with the record at fLESetSizes[setIndex] +
\* leIndex.  A read outside either array, or of an entry nothing has written,
\* yields any record, or ends the process (crash).
GarbageRecs == {[randCos |-> d.randCos, randSin |-> d.randSin, sampled |-> FALSE] :
                  d \in RndvValues}

AddUncertainty(setIndex, leIndex, patVel) ==
    LET inTable == setIndex < Len(fLESetSizes.recs)
        index   == IF inTable THEN fLESetSizes.recs[setIndex + 1] + leIndex ELSE -1
        inList  == inTable /\ index < Len(fWindUncertaintyList.recs)
        drawn(rec, valid) ==
            [kind |-> "draw", vel |-> patVel, index |-> index, valid |-> valid,
             rec |-> rec, sigma2 |-> fSigma2, sigmaTheta |-> fSigmaTheta]
    IN  IF ~fWindUncertaintyList.h \/ ~fLESetSizes.h
        THEN {[kind |-> "wind", vel |-> patVel]}
        ELSE IF patVel.u * patVel.u + patVel.v * patVel.v < 1
        THEN {[kind |-> "diffusion", vel |-> patVel,
               diffusion |-> fUncertaintyDiffusion]}
        ELSE IF inList /\ fWindUncertaintyList.recs[index + 1].sampled
        THEN {drawn(fWindUncertaintyList.recs[index + 1], TRUE)}
        ELSE {drawn(r, FALSE) : r \in GarbageRecs} \cup {[kind |-> "crash"]}

ZeroDelta == [kind |-> "zero"]
Untouched == [kind |-> "untouched"]

\* (A variant that moves particles below the surface too.)
GetMoveAnyDepth(model_time, timeStep, setIndex, leIndex, theLE, leType) ==
    LET timeValue == current_time_value
    IN  {IF w.kind = "crash" THEN w
         ELSE w @@ [windage |-> theLE.windage, timeStep |-> timeStep] :
           w \in IF leType = UNCERTAINTY_LE
                 THEN AddUncertainty(setIndex, leIndex, timeValue)
                 ELSE {[kind |-> "wind", vel |-> timeValue]}}

\* (A variant that asks the provider for the wind at model_time.)
GetMoveAsksProvider(model_time, timeStep, setIndex, leIndex, theLE, leType) ==
    IF theLE.z > 0 THEN {ZeroDelta}
    ELSE UNION {{IF w.kind = "crash" THEN w
                 ELSE w @@ [windage |-> theLE.windage, timeStep |-> timeStep] :
                   w \in IF leType = UNCERTAINTY_LE
                         THEN AddUncertainty(setIndex, leIndex, tv.value)
                         ELSE {[kind |-> "wind", vel |-> tv.value]}} :
                tv \in GetTimeValue(model_time)}

\* WindMover_c::GetMove: the displacement of one particle, kept as the wind
\* it is computed from (after AddUncertainty), the windage that multiplies it
\* and the time step, which the conversion to degrees is a function of.  The
\* wind is the one cached in current_time_value; model_time is not read.
GetMove(model_time, timeStep, setIndex, leIndex, theLE, leType) ==
    LET timeValue == current_time_value
    IN  IF theLE.z > 0 THEN {ZeroDelta}
        ELSE {IF w.kind = "crash" THEN w
              ELSE w @@ [windage |-> theLE.windage, timeStep |-> timeStep] :
                w \in IF leType = UNCERTAINTY_LE
                      THEN AddUncertainty(setIndex, leIndex, timeValue)
                      ELSE {[kind |-> "wind", vel |-> timeValue]}}

\* The loop of get_move over the particles i..n (1-based) with the status
\* codes read: every way the delta array can come out.  A crash ends the loop.
RECURSIVE MoveLoop(_, _, _, _, _, _, _)
MoveLoop(particles, status, i, model_time, step_len, spillType, spill_ID) ==
    IF i > Len(particles) THEN {<<>>}
    ELSE LET one == IF status[i] # OILSTAT_INWATER THEN {ZeroDelta}
                    ELSE GetMove(model_time, step_len, spill_ID, i - 1, particles[i],
                                 spillType)
         IN  UNION {IF d.kind = "crash" THEN {<<d>>}
                    ELSE {<<d>> \o rest :
                            rest \in MoveLoop(particles, status, i + 1, model_time,
                                              step_len, spillType, spill_ID)} :
                    d \in one}

Crashed(delta) == \E i \in 1..Len(delta) : delta[i].kind = "crash"

\* (A variant that does not look at spillType before the loop.)
GetMoveBatchAnyTag(particles, model_time, step_len, absent, spillType, spill_ID) ==
    LET n        == Len(particles)
        blank    == [i \in 1..n |-> Untouched]
        given    == [i \in 1..n |-> particles[i].status]
        statuses == IF absent = "LE_status" THEN [1..n -> Statuses] ELSE {given}
        loops    == UNION {MoveLoop(particles, st, 1, model_time, step_len,
                                      spillType, spill_ID) : st \in statuses}
    IN  IF absent \in {"delta", "ref", "windages"}
        THEN {[err |-> 1, crashed |-> FALSE, delta |-> blank]}
        ELSE {[err |-> noErr, crashed |-> Crashed(d), delta |-> d] : d \in loops}
             \cup (IF absent = "LE_status" /\ n > 0
                   THEN {[err |-> noErr, crashed |-> TRUE, delta |-> blank]}
                   ELSE {})

\* get_move: [err, crashed, delta].  absent names the array pointer that is
\* null, if any.  With LE_status null the loop reads through a null pointer:
\* the process ends, or the read yields any status.
GetMoveBatch(particles, model_time, step_len, absent, spillType, spill_ID) ==
    LET n        == Len(particles)
        blank    == [i \in 1..n |-> Untouched]
        given    == [i \in 1..n |-> particles[i].status]
        statuses == IF absent = "LE_status" THEN [1..n -> Statuses] ELSE {given}
        loops    == UNION {MoveLoop(particles, st, 1, model_time, step_len,
                                      spillType, spill_ID) : st \in statuses}
    IN  IF absent \in {"delta", "ref", "windages"}
        THEN {[err |-> 1, crashed |-> FALSE, delta |-> blank]}
        ELSE IF spillType < FORECAST_LE \/ spillType > UNCERTAINTY_LE
        THEN {[err |-> 2, crashed |-> FALSE, delta |-> blank]}
        ELSE {[err |-> noErr, crashed |-> Crashed(d), delta |-> d] : d \in loops}
             \cup (IF absent = "LE_status" /\ n > 0
                   THEN {[err |-> noErr, crashed |-> TRUE, delta |-> blank]}
                   ELSE {})

\* ------------------------------------------------------------------ state
TimeSteps == {900}       \* the step length the host passes, seconds

config == <<fUncertainStartTime, fDuration, fMaxAngle, fIsConstantWind,
            fConstantValue>>

\* WindMover_c::Init, then the host's choice of fUncertainStartTime.  Init
\* leaves fTimeUncertaintyWasSet and current_time_value unset: they hold any
\* value.
Init ==
    /\ fWindUncertaintyList = NilHandle
    /\ fLESetSizes = NilHandle
    /\ fTimeUncertaintyWasSet \in 0..MaxTime
    /\ fSigma2 = 0
    /\ fSigmaTheta = 0
    /\ fUncertainStartTime \in 0..MaxStart
    /\ fDuration = DefaultDuration
    /\ fMaxAngle = DefaultMaxAngle
    /\ fUncertaintyDiffusion = 0
    /\ bIsFirstStep = FALSE
    /\ fModelStartTime = 0
    /\ fIsConstantWind = FALSE
    /\ fConstantValue = ZeroWind
    /\ current_time_value \in Winds
    /\ call = [op |-> "Init", err |-> noErr]

\* A null or wild read in get_move may have ended the process.
Alive == ~(call.op = "get_move" /\ call.crashed)

PrepareForModelRun ==
    /\ Alive
    /\ bIsFirstStep' = TRUE
    /\ ApplyMover(DisposeUncertainty(Mover))
    /\ call' = [op |-> "PrepareForModelRun", err |-> noErr]
    /\ UNCHANGED <<config, fUncertaintyDiffusion, fModelStartTime,
                   current_time_value>>

\* The host never passes a model time before the time of the first step,
\* and starts a run at a time in 0..MaxFirst.  The set sizes are read, and
\* the elapsed time computed, only when uncertain.
PrepareForModelStep(model_time, time_step, uncertain, sizes) ==
    LET start   == IF bIsFirstStep THEN model_time ELSE fModelStartTime
        elapsed == model_time - start
        skipped == [m |-> Mover, err |-> noErr,
                    path |-> [active |-> FALSE, reinit |-> FALSE, grow |-> FALSE,
                              refresh |-> FALSE]]
    IN  /\ Alive
        /\ model_time >= start
        /\ bIsFirstStep => model_time <= MaxFirst
        /\ fModelStartTime' = start
        /\ \E s \in (IF uncertain THEN UpdateUncertainty(Mover, elapsed, sizes)
                     ELSE {skipped}),
              tv \in GetTimeValue(model_time) :
              /\ ApplyMover(s.m)
              /\ fUncertaintyDiffusion' =
                    IF uncertain THEN DiffusionOf(time_step)
                    ELSE fUncertaintyDiffusion
              /\ current_time_value' = tv.value
              /\ call' = [op |-> "PrepareForModelStep", err |-> tv.err,
                          wind |-> tv.value, uncertain |-> uncertain,
                          elapsed |-> IF uncertain THEN elapsed ELSE 0,
                          sizes |-> sizes, schedErr |-> s.err, path |-> s.path,
                          written |-> s.m.written, against |-> s.m.against]
        /\ UNCHANGED <<config, bIsFirstStep>>

ModelStepIsDone ==
    /\ Alive
    /\ bIsFirstStep' = FALSE
    /\ call' = [op |-> "ModelStepIsDone", err |-> noErr]
    /\ UNCHANGED <<config, fWindUncertaintyList, fLESetSizes,
                   fTimeUncertaintyWasSet, fSigma2, fSigmaTheta,
                   fUncertaintyDiffusion, fModelStartTime, current_time_value>>

Shrink(numLEs, given, statusCodes) ==
    LET r == ReallocateUncertainty(Mover, numLEs, given, statusCodes)
    IN  /\ Alive
        /\ ApplyMover(r.m)
        /\ call' = [op |-> "ReallocateUncertainty", err |-> r.err,
                    numLEs |-> numLEs, given |-> given,
                    statusCodes |-> statusCodes]
        /\ UNCHANGED <<config, fUncertaintyDiffusion, bIsFirstStep,
                       fModelStartTime, current_time_value>>

\* The call c was a step that asked for uncertainty before the start time.
BeforeStartStep(c) ==
    c.op = "PrepareForModelStep" /\ c.uncertain /\ c.elapsed < fUncertainStartTime

\* The call c was a step that asked for uncertainty and reported n particles
\* for the set spill_ID.
AsReported(c, n, spill_ID) ==
    /\ c.op = "PrepareForModelStep" /\ c.uncertain
    /\ spill_ID < Len(c.sizes)
    /\ c.sizes[spill_ID + 1] = n

\* particles: the entries of ref, windages and LE_status for the batch (the
\* position enters the displacement only through the conversion to degrees).
\* sinceBeforeStart: no call but get_move has been made since a step that
\* asked for uncertainty before the start time.  asReported: the call is for
\* an uncertainty set and comes right after a step that reported this many
\* particles for the set.
get_move(particles, model_time, step_len, absent, spillType, spill_ID) ==
    /\ Alive
    /\ \E r \in GetMoveBatch(particles, model_time, step_len, absent, spillType,
                            spill_ID) :
          call' = [op |-> "get_move", err |-> r.err, crashed |-> r.crashed,
                   delta |-> r.delta, particles |-> particles,
                   model_time |-> model_time,
                   absent |-> absent, spillType |-> spillType,
                   spill_ID |-> spill_ID, step_len |-> step_len,
                   sinceBeforeStart |-> BeforeStartStep(call)
                        \/ (call.op = "get_move" /\ call.sinceBeforeStart),
                   asReported |-> spillType = UNCERTAINTY_LE
                                  /\ AsReported(call, Len(particles), spill_ID)]
    /\ UNCHANGED <<config, fWindUncertaintyList, fLESetSizes,
                   fTimeUncertaintyWasSet, fSigma2, fSigmaTheta,
                   fUncertaintyDiffusion, bIsFirstStep, fModelStartTime,
                   current_time_value>>

Absents   == {"none", "ref", "delta", "windages", "LE_status"}
Particles == [status : Statuses, z : {0, 1}, windage : {3}]
Batches   == UNION {[1..n -> Particles] : n \in 0..MaxN}

\* The batches worth telling apart: the arrays are not read when ref, delta or
\* windages is null, LE_status has no entries when it is null, and spill_ID
\* is used for uncertainty particles only.
BatchesFor(absent) ==
    IF absent \in {"ref", "delta", "windages"} THEN {<<>>}
    ELSE IF absent = "LE_status"
    THEN {b \in Batches : \A i \in 1..Len(b) : b[i].status = OILSTAT_INWATER}
    ELSE Batches

\* model_time is handed on to GetMove only: in a call that returns before the
\* loop, or whose loop has no particle, nothing is done with it.
TimesFor(particles, absent, spillType) ==
    IF /\ absent \in {"none", "LE_status"}
       /\ spillType \in {FORECAST_LE, UNCERTAINTY_LE}
       /\ particles # <<>>
    THEN 0..MoveTime ELSE {0}

SomeGetMove ==
    \E absent \in Absents, spillType \in 0..3, step_len \in TimeSteps :
       \E particles \in BatchesFor(absent),
          spill_ID \in (IF spillType = UNCERTAINTY_LE THEN 0..(MaxSets - 1) ELSE {0}) :
          \E model_time \in TimesFor(particles, absent, spillType) :
             get_move(particles, model_time, step_len, absent, spillType, spill_ID)

SomeStep(lastTime) ==
    \E model_time \in 0..lastTime, time_step \in TimeSteps,
       uncertain \in BOOLEAN :
       \E sizes \in (IF uncertain THEN SizeLists ELSE {<<>>}) :
          PrepareForModelStep(model_time, time_step, uncertain, sizes)

SomeShrink ==
    \E numLEs \in 0..MaxTotal, given \in BOOLEAN :
       \E statusCodes \in (IF given THEN [1..numLEs -> Statuses] ELSE {<<>>}) :
          Shrink(numLEs, given, statusCodes)

\* The mover with its moves, over the model times 0..MoveTime.
MoveNext ==
    \/ PrepareForModelRun
    \/ SomeStep(MoveTime)
    \/ ModelStepIsDone
    \/ SomeShrink
    \/ SomeGetMove

MoveSpec == Init /\ [][MoveNext]_vars

\* The store and the calls that change it (get_move changes none of the
\* mover's fields), over the model times 0..MaxTime.
Next ==
    \/ PrepareForModelRun
    \/ SomeStep(MaxTime)
    \/ ModelStepIsDone
    \/ SomeShrink

Spec == Init /\ [][Next]_vars

\* ------------------------------------------- the sampler, step by step
\* The fill loop of UpdateUncertaintyValues (the grow block has the same
\* loop), one rndv call, one test or one store at a time.  call holds the
\* loop's locals: i, j, cosTerm, sinTerm; calls counts the rndv calls made for
\* entry i, failed the pairs TermsLessThanMax has rejected, tested says
\* whether the pair held has been through TermsLessThanMax.
MaxAngles   == {15, DefaultMaxAngle}                   \* fMaxAngle, as the host sets it
SigmaThetas == {SigmaThetaOf(dt) : dt \in 0..MaxTime}

\* A list of MaxSize entries was allocated; fMaxAngle and fSigmaTheta are what
\* the host and an UpdateUncertainty left.
SampleInit ==
    /\ fWindUncertaintyList = [h |-> TRUE, recs |-> Blank(MaxSize)]
    /\ fLESetSizes = [h |-> TRUE, recs |-> <<0>>]
    /\ fTimeUncertaintyWasSet = 0
    /\ fSigma2 = 0
    /\ fSigmaTheta \in SigmaThetas
    /\ fUncertainStartTime = 0
    /\ fDuration = DefaultDuration
    /\ fMaxAngle \in MaxAngles
    /\ fUncertaintyDiffusion = 0
    /\ bIsFirstStep = FALSE
    /\ fModelStartTime = 0
    /\ fIsConstantWind = FALSE
    /\ fConstantValue = ZeroWind
    /\ current_time_value = ZeroWind
    /\ call = [op |-> "UpdateUncertaintyValues", at |-> "next", i |-> 0]

SampleUnchanged ==
    UNCHANGED <<config, fLESetSizes, fTimeUncertaintyWasSet, fSigma2, fSigmaTheta,
                fUncertaintyDiffusion, bIsFirstStep, fModelStartTime,
                current_time_value>>

\* for (i = 0; i < n; i++) { rndv(&cosTerm, &sinTerm);
SampleFirst ==
    /\ call.op = "UpdateUncertaintyValues" /\ call.at = "next"
    /\ call.i < Len(fWindUncertaintyList.recs)
    /\ \E d \in RndvValues :
          call' = [op |-> "UpdateUncertaintyValues", at |-> "test", i |-> call.i,
                   j |-> 0, cosTerm |-> d.randCos, sinTerm |-> d.randSin,
                   calls |-> 1, failed |-> 0, tested |-> FALSE]
    /\ UNCHANGED fWindUncertaintyList
    /\ SampleUnchanged

\* (A variant whose loop runs while j <= 10.)
SampleTestOnceMore ==
    /\ call.op = "UpdateUncertaintyValues" /\ call.at = "test"
    /\ IF call.j <= MaxRetries
       THEN IF TermsLessThanMax(call.cosTerm, call.sinTerm, fMaxAngle, fSigmaTheta)
            THEN call' = [call EXCEPT !.at = "store", !.tested = TRUE]
            ELSE \E d \in RndvValues :
                    call' = [call EXCEPT !.cosTerm = d.randCos, !.sinTerm = d.randSin,
                                         !.j = @ + 1, !.calls = @ + 1,
                                         !.failed = @ + 1, !.tested = FALSE]
       ELSE call' = [call EXCEPT !.at = "store"]
    /\ UNCHANGED fWindUncertaintyList
    /\ SampleUnchanged

\* for (j = 0; j < 10; j++) { if (TermsLessThanMax(...)) break; rndv(...); }
SampleTest ==
    /\ call.op = "UpdateUncertaintyValues" /\ call.at = "test"
    /\ IF call.j < MaxRetries
       THEN IF TermsLessThanMax(call.cosTerm, call.sinTerm, fMaxAngle, fSigmaTheta)
            THEN call' = [call EXCEPT !.at = "store", !.tested = TRUE]
            ELSE \E d \in RndvValues :
                    call' = [call EXCEPT !.cosTerm = d.randCos, !.sinTerm = d.randSin,
                                         !.j = @ + 1, !.calls = @ + 1,
                                         !.failed = @ + 1, !.tested = FALSE]
       ELSE call' = [call EXCEPT !.at = "store"]
    /\ UNCHANGED fWindUncertaintyList
    /\ SampleUnchanged

\* (*fWindUncertaintyList)[i].randCos = cosTerm; ...randSin = sinTerm; }
SampleStore ==
    /\ call.op = "UpdateUncertaintyValues" /\ call.at = "store"
    /\ fWindUncertaintyList' =
          [fWindUncertaintyList EXCEPT !.recs[call.i + 1] =
              SampledRec([randCos |-> call.cosTerm, randSin |-> call.sinTerm])]
    /\ call' = [call EXCEPT !.at = "next", !.i = @ + 1]
    /\ SampleUnchanged

SampleNext == SampleFirst \/ SampleTest \/ SampleStore

SampleSpec == SampleInit /\ [][SampleNext]_vars

\* ================================================================ claims
\* What the claims speak of, stated on the state rather than on the
\* operators above.
StorePresent == fWindUncertaintyList.h /\ fLESetSizes.h
StoreEmpty   == ~fWindUncertaintyList.h /\ ~fLESetSizes.h

RECURSIVE PrefixTotal(_, _)
PrefixTotal(sizes, k) == IF k = 0 THEN 0 ELSE PrefixTotal(sizes, k - 1) + sizes[k]

Total(sizes) == PrefixTotal(sizes, Len(sizes))

\* The stored start indexes are the prefix sums of sizes.
OffsetsMatch(offsets, sizes) ==
    /\ Len(offsets) = Len(sizes)
    /\ \A i \in 1..Len(sizes) : offsets[i] = PrefixTotal(sizes, i - 1)

\* The entries of recs whose status is not "to be removed", in order.
RECURSIVE KeptEntries(_, _)
KeptEntries(recs, statusCodes) ==
    IF recs = <<>> THEN <<>>
    ELSE (IF statusCodes[1] = OILSTAT_TO_BE_REMOVED THEN <<>> ELSE <<recs[1]>>)
         \o KeptEntries(Tail(recs), Tail(statusCodes))

IsStep(c)      == c.op = "PrepareForModelStep"
SchedulerRan(c) == IsStep(c) /\ c.uncertain

\* C1: after AllocateUncertainty succeeds (a scheduler step that reinitialises
\* the store and returns no error), the draw array has as many entries as the
\* sizes sum to, the offset table has one entry per set, offsets[0] = 0 and
\* offsets[i] is the sum of sizes[0..i-1].
C1_AllocateShape ==
    (SchedulerRan(call) /\ call.path.active /\ call.path.reinit
        /\ call.schedErr = noErr)
    => /\ StorePresent
       /\ Len(fWindUncertaintyList.recs) = Total(call.sizes)
       /\ Len(fLESetSizes.recs) = Len(call.sizes)
       /\ fLESetSizes.recs[1] = 0
       /\ \A i \in 1..Len(call.sizes) :
             fLESetSizes.recs[i] = PrefixTotal(call.sizes, i - 1)

\* A store of two sets of one particle each has just been allocated.
C1_Witness ==
    /\ SchedulerRan(call) /\ call.path.reinit /\ call.schedErr = noErr
    /\ call.sizes = <<1, 1>>
    /\ fLESetSizes.recs = <<0, 1>>
    /\ Len(fWindUncertaintyList.recs) = 2

\* C2: on a single-set store whose length is numLEs, ReallocateUncertainty
\* leaves exactly the entries not flagged "to be removed", in their order;
\* with no flag set the list is unchanged, with every flag set (of at least
\* one particle) the store is disposed.
ShrinkApplies ==
    /\ call'.op = "ReallocateUncertainty" /\ call'.given
    /\ StorePresent
    /\ Len(fLESetSizes.recs) = 1
    /\ Len(fWindUncertaintyList.recs) = call'.numLEs

C2_ShrinkKeepsOrder ==
    [][ShrinkApplies =>
        LET kept == KeptEntries(fWindUncertaintyList.recs, call'.statusCodes)
            none == \A i \in 1..call'.numLEs :
                       call'.statusCodes[i] # OILSTAT_TO_BE_REMOVED
            all  == \A i \in 1..call'.numLEs :
                       call'.statusCodes[i] = OILSTAT_TO_BE_REMOVED
        IN  /\ fWindUncertaintyList'.recs = kept
            /\ Len(fWindUncertaintyList'.recs) = Len(kept)
            /\ kept # <<>> => fWindUncertaintyList'.h /\ fLESetSizes' = fLESetSizes
            /\ none => fWindUncertaintyList' = fWindUncertaintyList
            /\ (all /\ call'.numLEs >= 1) =>
                  ~fWindUncertaintyList'.h /\ ~fLESetSizes'.h]_vars

\* The first of two different entries was removed and the second is left.
C2_Witness ==
    /\ call.op = "ReallocateUncertainty" /\ call.err = noErr
    /\ call.numLEs = 2
    /\ call.statusCodes = <<OILSTAT_TO_BE_REMOVED, OILSTAT_INWATER>>
    /\ StorePresent
    /\ Len(fWindUncertaintyList.recs) = 1
    /\ fWindUncertaintyList.recs[1].randSin = 2

\* The step takes the grow path: one set stored and one reported, the stored
\* start index right, fewer entries stored (a) than reported (b), elapsed not
\* before the start time nor before the last sampling.
GrowStep ==
    /\ SchedulerRan(call')
    /\ call'.elapsed >= fUncertainStartTime
    /\ StorePresent
    /\ call'.elapsed >= fTimeUncertaintyWasSet
    /\ Len(call'.sizes) = 1
    /\ OffsetsMatch(fLESetSizes.recs, call'.sizes)
    /\ Len(fWindUncertaintyList.recs) < Total(call'.sizes)

GrowKeepsPrefix ==
    LET a == Len(fWindUncertaintyList.recs)
        b == Total(call'.sizes)
    IN  /\ Len(fWindUncertaintyList'.recs) = b
        /\ \A i \in 1..a : fWindUncertaintyList'.recs[i] = fWindUncertaintyList.recs[i]
        /\ call'.written = (a + 1)..b
        /\ \A i \in (a + 1)..b : fWindUncertaintyList'.recs[i].sampled

\* C3, as claimed: every grow step keeps the entries [0,a) and samples only
\* [a,b), whatever the elapsed time.
C3_GrowKeepsPrefix_Claimed == [][GrowStep => GrowKeepsPrefix]_vars

\* C3, amended: a grow step before the persistence has run out
\* (elapsed < fTimeUncertaintyWasSet + fDuration) keeps the entries [0,a) and
\* samples only [a,b); a grow step at or after it resamples all b entries and
\* records the time.
C3_GrowKeepsPrefix ==
    [][GrowStep =>
        IF call'.elapsed < fTimeUncertaintyWasSet + fDuration
        THEN GrowKeepsPrefix /\ fTimeUncertaintyWasSet' = fTimeUncertaintyWasSet
        ELSE /\ Len(fWindUncertaintyList'.recs) = Total(call'.sizes)
             /\ call'.written = 1..Total(call'.sizes)
             /\ fTimeUncertaintyWasSet' = call'.elapsed]_vars

\* A list of one entry has grown to two, only the second was sampled.
C3_Witness ==
    /\ SchedulerRan(call) /\ call.schedErr = noErr
    /\ call.path.grow /\ ~call.path.reinit /\ ~call.path.refresh
    /\ call.written = {2}
    /\ Len(fWindUncertaintyList.recs) = 2

\* C4: a step with the store present, the set count, offsets and total as
\* reported, and lastRefresh <= elapsed < lastRefresh + duration changes
\* neither the draw array, nor the offset table, nor the refresh time.
QuietStep ==
    /\ SchedulerRan(call')
    /\ StorePresent
    /\ OffsetsMatch(fLESetSizes.recs, call'.sizes)
    /\ Len(fWindUncertaintyList.recs) = Total(call'.sizes)
    /\ fTimeUncertaintyWasSet <= call'.elapsed
    /\ call'.elapsed < fTimeUncertaintyWasSet + fDuration

C4_QuietStepKeepsDraws ==
    [][QuietStep =>
        /\ fWindUncertaintyList' = fWindUncertaintyList
        /\ fLESetSizes' = fLESetSizes
        /\ fTimeUncertaintyWasSet' = fTimeUncertaintyWasSet
        /\ call'.written = {}
        /\ call'.schedErr = noErr]_vars

\* A step later than the last sampling, within the persistence, found a store
\* of two sampled draws and left it alone.
C4_Witness ==
    /\ SchedulerRan(call) /\ call.schedErr = noErr /\ call.path.active
    /\ ~call.path.reinit /\ ~call.path.grow /\ ~call.path.refresh
    /\ StorePresent
    /\ Len(fWindUncertaintyList.recs) = 2
    /\ call.elapsed > fTimeUncertaintyWasSet

\* C5, as claimed: after a PrepareForModelStep with uncertain = false the
\* store is empty.
C5_NotRequestedEmpties == (IsStep(call) /\ ~call.uncertain) => StoreEmpty

\* The step meets a reinit condition of the claim.
ReinitDue ==
    /\ SchedulerRan(call')
    /\ call'.elapsed >= fUncertainStartTime
    /\ \/ ~StorePresent
       \/ call'.elapsed < fTimeUncertaintyWasSet
       \/ Len(fLESetSizes.recs) # Len(call'.sizes)
       \/ \E i \in 1..Len(call'.sizes) :
             fLESetSizes.recs[i] # PrefixTotal(call'.sizes, i - 1)

\* C7, as claimed (for at least one set, and unless _NewHandle fails): a step
\* that meets a reinit condition leaves the store freshly allocated to the
\* reported sizes, every entry resampled, lastRefresh = elapsed.
C7_ReinitAllocatesFresh ==
    [][(ReinitDue /\ Len(call'.sizes) >= 1 /\ call'.schedErr # memFullErr) =>
        /\ fWindUncertaintyList'.h /\ fLESetSizes'.h
        /\ OffsetsMatch(fLESetSizes'.recs, call'.sizes)
        /\ Len(fWindUncertaintyList'.recs) = Total(call'.sizes)
        /\ \A i \in 1..Total(call'.sizes) : fWindUncertaintyList'.recs[i].sampled
        /\ call'.written = 1..Total(call'.sizes)
        /\ fTimeUncertaintyWasSet' = call'.elapsed]_vars

\* C8, as claimed (for the scheduler and the AllocateUncertainty it calls):
\* when the scheduler returns an error the store is empty.
C8_ErrorLeavesStoreEmpty ==
    (SchedulerRan(call) /\ call.schedErr # noErr) => StoreEmpty

\* C9, as claimed: when the scheduler fails during the step,
\* PrepareForModelStep returns a non-zero error code.
C9_StepReportsSchedulerError ==
    (SchedulerRan(call) /\ call.schedErr # noErr) => call.err # noErr

\* C6: after a step that asks for uncertainty with elapsed <
\* fUncertainStartTime the store is empty, and a get_move that follows it
\* perturbs nothing: an in-water surface particle moves with the cached wind
\* times its windage, uncertainty-tagged or forecast-tagged alike.
C6_BeforeStartNoPerturbation ==
    /\ BeforeStartStep(call) => StoreEmpty
    /\ (call.op = "get_move" /\ call.sinceBeforeStart /\ call.absent = "none"
            /\ call.spillType \in {FORECAST_LE, UNCERTAINTY_LE})
       => /\ call.err = noErr /\ ~call.crashed
          /\ \A i \in 1..Len(call.particles) :
                (call.particles[i].status = OILSTAT_INWATER /\ call.particles[i].z <= 0)
                => call.delta[i] = [kind |-> "wind", vel |-> current_time_value,
                                    windage |-> call.particles[i].windage,
                                    timeStep |-> call.step_len]

\* An uncertainty particle in a wind of 5 m/s has been moved right after a
\* step before the start time.
C6_Witness ==
    /\ call.op = "get_move" /\ call.sinceBeforeStart
    /\ call.spillType = UNCERTAINTY_LE /\ call.err = noErr
    /\ Len(call.particles) = 1
    /\ call.particles[1].status = OILSTAT_INWATER /\ call.particles[1].z = 0
    /\ current_time_value = [u |-> 3, v |-> 4]
    /\ call.delta[1].kind = "wind"
    /\ fUncertaintyDiffusion > 0

\* C10, as claimed (for a batch of at least one particle with a valid tag):
\* get_move returns 1 (InvalidArgument), and reads through no null pointer,
\* whenever ref, delta, windages or LE_status is absent.
C10_AbsentArrayIsInvalidArgument ==
    (call.op = "get_move" /\ call.absent # "none"
        /\ call.spillType \in {FORECAST_LE, UNCERTAINTY_LE}
        /\ (call.absent = "LE_status" => Len(call.particles) >= 1))
    => call.err = 1 /\ ~call.crashed

\* The fields of the mover get_move could write.
moverState == <<fWindUncertaintyList, fLESetSizes, fTimeUncertaintyWasSet,
                fSigma2, fSigmaTheta, fUncertaintyDiffusion, bIsFirstStep,
                fModelStartTime, current_time_value, config>>

\* C11: a get_move whose population tag is neither FORECAST_LE nor
\* UNCERTAINTY_LE returns an error and aborts the batch: no element of delta
\* is written, nothing is read through a pointer, no field of the mover
\* changes; with ref, delta and windages given (their check comes first) the
\* error is 2, the invalid-tag code.
C11_InvalidTagAbortsBatch ==
    [][(call'.op = "get_move" /\ call'.spillType \notin {FORECAST_LE, UNCERTAINTY_LE})
        => /\ call'.err # noErr
           /\ call'.absent \notin {"ref", "delta", "windages"} => call'.err = 2
           /\ ~call'.crashed
           /\ \A i \in 1..Len(call'.particles) : call'.delta[i] = Untouched
           /\ UNCHANGED moverState]_vars

\* An in-water surface particle was passed with tag 3 while a store of
\* sampled draws was present; nothing was written for it.
C11_Witness ==
    /\ call.op = "get_move" /\ call.spillType = 3 /\ call.absent = "none"
    /\ call.err = 2
    /\ Len(call.particles) = 1
    /\ call.particles[1].status = OILSTAT_INWATER /\ call.particles[1].z = 0
    /\ call.delta = <<Untouched>>
    /\ StorePresent /\ Len(fWindUncertaintyList.recs) >= 1

\* C12: a particle below the surface (z > 0) that get_move hands to GetMove
\* gets the zero displacement, whatever the cached wind, the windage, the tag
\* and the store; no draw is read for it.
C12_BelowSurfaceZero ==
    (call.op = "get_move" /\ call.absent = "none" /\ call.err = noErr)
    => \A i \in 1..Len(call.delta) :
          (call.particles[i].status = OILSTAT_INWATER /\ call.particles[i].z > 0)
          => call.delta[i] = ZeroDelta

\* An in-water uncertainty particle below the surface, in a wind of 5 m/s,
\* with a sampled draw stored at its index, was given the zero displacement.
C12_Witness ==
    /\ call.op = "get_move" /\ call.absent = "none" /\ call.err = noErr
    /\ call.spillType = UNCERTAINTY_LE /\ call.spill_ID = 0
    /\ Len(call.particles) = 1
    /\ call.particles[1].status = OILSTAT_INWATER /\ call.particles[1].z = 1
    /\ current_time_value = [u |-> 3, v |-> 4]
    /\ StorePresent /\ Len(fWindUncertaintyList.recs) >= 1
    /\ fWindUncertaintyList.recs[1].sampled
    /\ call.delta = <<ZeroDelta>>

\* The sampler has just stored the pair for an entry.
JustStored == call.op = "UpdateUncertaintyValues" /\ call.at = "next" /\ call.i > 0

StoredWithinBound ==
    TermsLessThanMax(call.cosTerm, call.sinTerm, fMaxAngle, fSigmaTheta)

\* C13, as claimed: for every entry filled rndv is called at most 10 times;
\* the pair stored has been tested against the bound, and satisfies it unless
\* 10 pairs failed.
C13_SamplerTenCalls ==
    JustStored => /\ call.calls <= MaxRetries
                  /\ call.tested
                  /\ StoredWithinBound \/ call.failed = MaxRetries

\* C13, amended: for every entry filled rndv is called at most 11 times
\* (once before the loop, once after each of up to 10 failed tests) and the
\* loop ends after at most 10 tests; while fewer than 10 pairs have failed the
\* pair stored is the first that passed the test; after 10 failures the pair
\* stored is the 11th, which is not tested.  The rndv calls and the pair
\* stored are among the outcomes SampleOutcomes lists.
C13_SamplerElevenCalls ==
    /\ (call.op = "UpdateUncertaintyValues" /\ call.at \in {"test", "store"})
       => /\ call.j <= MaxRetries /\ call.j = call.failed
          /\ call.calls = call.failed + 1
    /\ JustStored =>
          /\ call.calls <= MaxRetries + 1
          /\ call.failed < MaxRetries => call.tested /\ StoredWithinBound
          /\ call.failed = MaxRetries => ~call.tested /\ call.calls = MaxRetries + 1
          /\ fWindUncertaintyList.recs[call.i] =
                SampledRec([randCos |-> call.cosTerm, randSin |-> call.sinTerm])
          /\ [draw |-> [randCos |-> call.cosTerm, randSin |-> call.sinTerm],
              calls |-> call.calls] \in SampleOutcomes(fMaxAngle, fSigmaTheta)

\* Ten pairs failed the bound of 15 degrees at sigmaTheta 10; the 11th, which
\* is outside the bound too, was stored.
C13_Witness ==
    /\ JustStored
    /\ fMaxAngle = 15 /\ fSigmaTheta = 10
    /\ call.failed = MaxRetries /\ call.calls = MaxRetries + 1
    /\ ~StoredWithinBound
    /\ fWindUncertaintyList.recs[call.i].randSin = 2

\* C14: the wind the provider returned in PrepareForModelStep is the one
\* cached, and get_move neither asks the provider nor changes the cache: every
\* particle that is moved is moved with the cached wind (as it is for a
\* forecast particle, through AddUncertainty for an uncertainty particle),
\* whatever model time get_move is passed.
C14_WindCachedPerStep ==
    [][/\ IsStep(call') => current_time_value' = call'.wind
       /\ call'.op = "get_move" =>
             /\ current_time_value' = current_time_value
             /\ \A i \in 1..Len(call'.delta) :
                   call'.delta[i].kind \in {"wind", "diffusion", "draw"}
                   => call'.delta[i].vel = current_time_value]_vars

\* In the first step of a run, at model time 0, the provider returned a wind
\* of 5 m/s; a forecast particle was then moved with it by a get_move that
\* was passed model time 1.
C14_Witness ==
    /\ call.op = "get_move" /\ call.err = noErr /\ call.absent = "none"
    /\ bIsFirstStep /\ fModelStartTime = 0 /\ call.model_time = 1
    /\ call.spillType = FORECAST_LE
    /\ Len(call.delta) = 1 /\ call.delta[1].kind = "wind"
    /\ call.delta[1].vel = [u |-> 3, v |-> 4]
    /\ current_time_value = [u |-> 3, v |-> 4]

\* C15, as claimed (for the invocations that return no error): after a
\* scheduler invocation with elapsed >= fUncertainStartTime the spreads are
\* those of this step's elapsed time, and every pair sampled in the
\* invocation was tested against this step's fSigmaTheta.
C15_SampledAgainstThisStep ==
    (SchedulerRan(call) /\ call.path.active /\ call.schedErr = noErr)
    => /\ fSigma2 = Sigma2Of(call.elapsed - fUncertainStartTime)
       /\ fSigmaTheta = SigmaThetaOf(call.elapsed - fUncertainStartTime)
       /\ call.against \subseteq {SigmaThetaOf(call.elapsed - fUncertainStartTime)}

\* The step finds the store present with the set count and the start indexes
\* as reported and another total than reported, and is not the growth of a
\* single set.
MismatchStep ==
    /\ SchedulerRan(call')
    /\ call'.elapsed >= fUncertainStartTime
    /\ StorePresent
    /\ OffsetsMatch(fLESetSizes.recs, call'.sizes)
    /\ Len(fWindUncertaintyList.recs) # Total(call'.sizes)
    /\ \/ Len(fWindUncertaintyList.recs) > Total(call'.sizes)
       \/ Len(call'.sizes) > 1

RefreshStep ==
    /\ SchedulerRan(call')
    /\ call'.elapsed >= fUncertainStartTime
    /\ StorePresent
    /\ OffsetsMatch(fLESetSizes.recs, call'.sizes)
    /\ Len(fWindUncertaintyList.recs) = Total(call'.sizes)
    /\ call'.elapsed >= fTimeUncertaintyWasSet + fDuration

\* C17: a step that requires neither reinit nor grow, with elapsed >=
\* fTimeUncertaintyWasSet + fDuration, samples every entry of the list anew,
\* against this step's fSigmaTheta, leaves the length of the list and the
\* start indexes as they were, records elapsed as the time of sampling and
\* returns no error.
C17_RefreshResamplesAll ==
    [][RefreshStep =>
        LET n == Len(fWindUncertaintyList.recs)
        IN  /\ call'.schedErr = noErr
            /\ fWindUncertaintyList'.h
            /\ Len(fWindUncertaintyList'.recs) = n
            /\ call'.written = 1..n
            /\ \A i \in 1..n : fWindUncertaintyList'.recs[i].sampled
            /\ n > 0 => call'.against =
                            {SigmaThetaOf(call'.elapsed - fUncertainStartTime)}
            /\ fLESetSizes' = fLESetSizes
            /\ fTimeUncertaintyWasSet' = call'.elapsed]_vars

\* Two draws sampled at an earlier time were both sampled anew by a step
\* three hours into the run.
C17_Witness ==
    /\ SchedulerRan(call) /\ call.schedErr = noErr
    /\ call.path.refresh /\ ~call.path.reinit /\ ~call.path.grow
    /\ call.elapsed = DefaultDuration
    /\ fTimeUncertaintyWasSet = call.elapsed
    /\ Len(fWindUncertaintyList.recs) = 2
    /\ call.written = {1, 2}

\* C18: ReallocateUncertainty called while the store is present and holds
\* more than one set, or a list of another length than numLEs, returns -1 and
\* leaves the list, the start indexes and the time of sampling as they were.
C18_ShrinkRejects ==
    [][(/\ call'.op = "ReallocateUncertainty"
        /\ StorePresent
        /\ \/ Len(fLESetSizes.recs) > 1
           \/ Len(fWindUncertaintyList.recs) # call'.numLEs)
       => /\ call'.err = -1
          /\ fWindUncertaintyList' = fWindUncertaintyList
          /\ fLESetSizes' = fLESetSizes
          /\ fTimeUncertaintyWasSet' = fTimeUncertaintyWasSet]_vars

\* A store of two sets and one draw was asked to drop its one particle, and
\* was left as it was.
C18_Witness ==
    /\ call.op = "ReallocateUncertainty" /\ call.err = -1
    /\ call.given /\ call.numLEs = 1
    /\ call.statusCodes = <<OILSTAT_TO_BE_REMOVED>>
    /\ StorePresent
    /\ Len(fLESetSizes.recs) = 2
    /\ Len(fWindUncertaintyList.recs) = 1
    /\ fWindUncertaintyList.recs[1].sampled

\* C19, as claimed (for the get_move that comes right after the step): a
\* get_move for the uncertainty set spill_ID with as many particles as the
\* step reported for that set reads draws only at indexes inside the list,
\* of entries the sampler has written.
C19_ReadsSampledDrawsOnly ==
    (/\ call.op = "get_move" /\ call.asReported
     /\ call.spillType = UNCERTAINTY_LE /\ call.absent = "none")
    => /\ ~call.crashed
       /\ \A i \in 1..Len(call.delta) :
             call.delta[i].kind = "draw" => call.delta[i].valid

\* C20: after a scheduler invocation that returns no error and leaves the
\* store present, fTimeUncertaintyWasSet <= elapsed < fTimeUncertaintyWasSet
\* + fDuration (fDuration > 0); a call that disposes of the store
\* (PrepareForModelRun, a scheduler step or a shrink that leaves a present
\* store empty, a failed allocation) leaves fTimeUncertaintyWasSet = 0, and it
\* stays 0 for as long as the store is empty.
C20_RefreshTimeInWindow ==
    [][/\ (SchedulerRan(call') /\ call'.schedErr = noErr
            /\ fWindUncertaintyList'.h /\ fLESetSizes'.h)
          => /\ fDuration' > 0
             /\ fTimeUncertaintyWasSet' <= call'.elapsed
             /\ call'.elapsed < fTimeUncertaintyWasSet' + fDuration'
       /\ (StorePresent /\ ~fWindUncertaintyList'.h /\ ~fLESetSizes'.h)
          => fTimeUncertaintyWasSet' = 0
       /\ call'.op = "PrepareForModelRun"
          => fTimeUncertaintyWasSet' = 0 /\ ~fWindUncertaintyList'.h
       /\ (SchedulerRan(call') /\ call'.path.active /\ call'.schedErr # noErr
            /\ ~fWindUncertaintyList'.h)
          => fTimeUncertaintyWasSet' = 0
       /\ (StoreEmpty /\ fTimeUncertaintyWasSet = 0 /\ ~fWindUncertaintyList'.h)
          => fTimeUncertaintyWasSet' = 0]_vars

\* Two hours after its draws were sampled, in the last hour of their
\* persistence, a step found the store present and did not sample it anew.
C20_Witness ==
    /\ SchedulerRan(call) /\ call.schedErr = noErr
    /\ StorePresent /\ Len(fWindUncertaintyList.recs) >= 1
    /\ ~call.path.reinit /\ ~call.path.refresh
    /\ call.elapsed = fTimeUncertaintyWasSet + 2
    /\ call.elapsed + 1 = fTimeUncertaintyWasSet + fDuration

====
